---- MODULE Spec2Model ----
(***************************************************************************)
(* The moth importer (moths_import.py): a base directory holding           *)
(* date-named sub-directories of .jpg files is scanned, every file name is *)
(* parsed into (n, m, blah), each directory is validated and, when valid,  *)
(* written to the trapping and instance tables of the database.            *)
(*                                                                         *)
(* Text is a sequence of one-character strings, so that the parser works   *)
(* on the characters of a file name as the Python code does.               *)
(***************************************************************************)
EXTENDS Integers, Sequences, FiniteSets, TLC

(***************************************************************************)
(* Bounds of the model.                                                    *)
(***************************************************************************)
\* longest file name, in underscore-separated tokens, of the one-file directories
MaxTokens == 3
\* most files in a directory drawn from FileNamePool
MaxFiles == 2
\* entries of the base directory in the several-directory file systems
NumEntries == 2
\* times the importer is run again over the same file system
MaxReruns == 1
\* largest file size, in bytes
MaxFileSize == 2
\* most links in a listing drawn from LinkPool
MaxLinks == 2
\* most trappings in the databases of the navigation chain
MaxTrappings == 2
\* largest count of a moth in the databases of the count words, and the
\* least is its negative
MaxCount == 32

(***************************************************************************)
(* Characters and Python's str operations on them.                         *)
(***************************************************************************)
Digits == <<"0", "1", "2", "3", "4", "5", "6", "7", "8", "9">>

UpperCase == <<"B", "G", "I", "J", "M", "P">>

LowerCase == <<"b", "g", "i", "j", "m", "p">>

OtherLetters == {"a", "t", "x"}

\* the characters of the model's file names in code point order
CodePointOrder ==
  <<"-", ".", "0", "1", "2", "3", "4", "5", "6", "7", "8", "9",
    "B", "G", "I", "J", "M", "P", "_",
    "a", "b", "g", "i", "j", "m", "p", "t", "x">>

IndexIn(seq, c) == CHOOSE k \in 1..Len(seq) : seq[k] = c

InSeq(seq, c) == \E k \in 1..Len(seq) : seq[k] = c

Ord(c) == IndexIn(CodePointOrder, c)

IsDigit(c) == InSeq(Digits, c)

\* str.isalpha() of one character
IsAlpha(c) == InSeq(UpperCase, c) \/ InSeq(LowerCase, c) \/ c \in OtherLetters

\* str.lower() of one character
LowerChar(c) == IF InSeq(UpperCase, c) THEN LowerCase[IndexIn(UpperCase, c)] ELSE c

\* str.lower()
Lower(s) == [k \in 1..Len(s) |-> LowerChar(s[k])]

\* s[:k], Python's slice with a possibly negative end
SliceTo(s, k) ==
  LET end == IF k >= 0 THEN (IF k < Len(s) THEN k ELSE Len(s))
             ELSE (IF Len(s) + k > 0 THEN Len(s) + k ELSE 0)
  IN  SubSeq(s, 1, end)

\* s.endswith(suffix)
EndsWith(s, suffix) ==
  /\ Len(s) >= Len(suffix)
  /\ SubSeq(s, Len(s) - Len(suffix) + 1, Len(s)) = suffix

\* s < t in Python's str comparison (lexicographic by code point)
RECURSIVE StrLess(_, _)
StrLess(s, t) ==
  IF t = <<>> THEN FALSE
  ELSE IF s = <<>> THEN TRUE
  ELSE IF s[1] # t[1] THEN Ord(s[1]) < Ord(t[1])
  ELSE StrLess(Tail(s), Tail(t))

\* s.split('_')
RECURSIVE Split(_)
Split(s) ==
  IF \A k \in 1..Len(s) : s[k] # "_" THEN <<s>>
  ELSE LET p == CHOOSE k \in 1..Len(s) :
                  s[k] = "_" /\ \A j \in 1..(k - 1) : s[j] # "_"
       IN  <<SubSeq(s, 1, p - 1)>> \o Split(SubSeq(s, p + 1, Len(s)))

\* whether int(text) succeeds: an optional sign and one or more decimal digits
IntParses(text) ==
  LET body == IF Len(text) > 0 /\ text[1] \in {"-", "+"} THEN Tail(text) ELSE text
  IN  Len(body) > 0 /\ \A k \in 1..Len(body) : IsDigit(body[k])

RECURSIVE DigitsValue(_)
DigitsValue(body) ==
  IF body = <<>> THEN 0
  ELSE 10 * DigitsValue(SubSeq(body, 1, Len(body) - 1))
       + (IndexIn(Digits, body[Len(body)]) - 1)

\* int(text), for a text that int() accepts
IntValue(text) ==
  IF text[1] = "-" THEN 0 - DigitsValue(Tail(text))
  ELSE IF text[1] = "+" THEN DigitsValue(Tail(text))
  ELSE DigitsValue(text)

(***************************************************************************)
(* The file name parser of process_directory.                              *)
(***************************************************************************)
\* 'm' not in file_list_entry
NoM == "none"

JpgExt == <<".", "j", "p", "g">>

\* file_name.lower().endswith('.jpg')
IsJpg(file_name) == EndsWith(Lower(file_name), JpgExt)

\* ScanParts without the "+ 1 for the underscore" of len_prefix
RECURSIVE ScanParts_NoSeparator(_, _, _, _)
ScanParts_NoSeparator(parts, k, e, len_prefix) ==
  IF k = 0 THEN [e EXCEPT !.len_prefix = len_prefix]
  ELSE LET text == parts[k]
       IN  IF IntParses(text)
           THEN [e EXCEPT !.has_n = TRUE, !.n = IntValue(text),
                          !.len_prefix = len_prefix - Len(text)]
           ELSE IF e.m = NoM /\ Len(text) = 1 /\ IsAlpha(text[1])
           THEN ScanParts_NoSeparator(parts, k - 1,
                                      [e EXCEPT !.m = LowerChar(text[1])],
                                      len_prefix - Len(text))
           ELSE [e EXCEPT !.len_prefix = len_prefix]

\* The loop over reversed(file_name_parts): k is the index of the part looked
\* at, e the entry so far and len_prefix the running prefix length.
RECURSIVE ScanParts(_, _, _, _)
ScanParts(parts, k, e, len_prefix) ==
  IF k = 0 THEN [e EXCEPT !.len_prefix = len_prefix]
  ELSE LET text == parts[k]
       IN  IF IntParses(text)
           THEN [e EXCEPT !.has_n = TRUE, !.n = IntValue(text),
                          !.len_prefix = len_prefix - (Len(text) + 1)]
           ELSE IF e.m = NoM /\ Len(text) = 1 /\ IsAlpha(text[1])
           THEN ScanParts(parts, k - 1, [e EXCEPT !.m = LowerChar(text[1])],
                          len_prefix - (Len(text) + 1))
           ELSE [e EXCEPT !.len_prefix = len_prefix]

\* One pass of the body of the loop over os.listdir(date_path) for a .jpg
\* file: the entry, with has_n telling whether a count was found.
ParseFileName(file_name) ==
  LET file_name_no_ext == SubSeq(file_name, 1, Len(file_name) - 4)
      file_name_parts  == Split(file_name_no_ext)
      scanned == ScanParts(file_name_parts, Len(file_name_parts),
                           [has_n |-> FALSE, n |-> 0, m |-> NoM, len_prefix |-> 0],
                           Len(file_name_no_ext))
  IN  [file_name |-> file_name,
       has_n     |-> scanned.has_n,
       n         |-> scanned.n,
       m         |-> scanned.m,
       blah      |-> IF scanned.has_n
                     THEN SliceTo(file_name_no_ext, scanned.len_prefix)
                     ELSE <<>>]

(***************************************************************************)
(* The per-directory steps of process_directory.                           *)
(***************************************************************************)
\* what date_get() gives for a base directory entry that is no date-named
\* directory
NoDate == 0

\* the .jpg files of a listing, in os.listdir() order
JpgFiles(files) == SelectSeq(files, LAMBDA f : IsJpg(f.name))

\* the parsed entry of every .jpg file, understood or not
ParsedFiles(files) ==
  [k \in 1..Len(JpgFiles(files)) |-> ParseFileName(JpgFiles(files)[k].name)]

\* FilesInError with the files that are not understood left uncounted
FilesInError_Uncounted(files) == 0

\* files_in_error after the loop over os.listdir(date_path)
FilesInError(files) ==
  Cardinality({k \in 1..Len(ParsedFiles(files)) : ~ParsedFiles(files)[k].has_n})

\* file_list after the loop over os.listdir(date_path): one entry per
\* understood file; d is the place of the directory in the base directory
BuildFileList(d, files) ==
  LET understood == SelectSeq(ParsedFiles(files), LAMBDA e : e.has_n)
  IN  [k \in 1..Len(understood) |->
         [file_path |-> <<d, understood[k].file_name>>,
          n         |-> understood[k].n,
          m         |-> understood[k].m,
          blah      |-> understood[k].blah]]

\* list.sort(key=blah) is stable: an entry goes behind every entry whose
\* key is not greater than its own
InsertByBlah(sorted, e) ==
  LET stop == Cardinality({k \in 1..Len(sorted) : ~StrLess(e.blah, sorted[k].blah)})
  IN  SubSeq(sorted, 1, stop) \o <<e>> \o SubSeq(sorted, stop + 1, Len(sorted))

RECURSIVE SortByBlah(_)
SortByBlah(list) ==
  IF list = <<>> THEN <<>>
  ELSE InsertByBlah(SortByBlah(SubSeq(list, 1, Len(list) - 1)), list[Len(list)])

\* the integers CPython keeps one object of
SmallInts == (0 - 5)..256

\* "a is not b" for two integers made by separate int() calls: equal values
\* are one object only inside the small integer cache; an interpreter that
\* compares integers by value answers as != does
IsNot(a, b, int_identity) ==
  \/ a # b
  \/ a \notin SmallInts /\ int_identity = "by_object"

\* CountsInconsistent with n taken from the entry before it is compared, so
\* that no entry ever differs
CountsInconsistent_ComparesOwnCount(list, k, n, blah, int_identity) == FALSE

\* The final check over the sorted file_list: TRUE when an inconsistent n is
\* met. k is the place in the list, n and blah the values carried along.
RECURSIVE CountsInconsistent(_, _, _, _, _)
CountsInconsistent(list, k, n, blah, int_identity) ==
  IF k > Len(list) THEN FALSE
  ELSE LET file == list[k]
       IN  IF file.m # NoM
           THEN IF blah = file.blah
                THEN IF IsNot(file.n, n, int_identity) THEN TRUE
                     ELSE CountsInconsistent(list, k + 1, n, file.blah, int_identity)
                ELSE CountsInconsistent(list, k + 1, file.n, file.blah, int_identity)
           ELSE CountsInconsistent(list, k + 1, n, blah, int_identity)

(***************************************************************************)
(* The database writers.  A fault is what the environment does to one      *)
(* directory's writes: [kind, at], with kind one of                        *)
(*   "none"          nothing fails                                         *)
(*   "trap_connect"  ensure_trapping: the connection or the INSERT raises  *)
(*                   Error, nothing is committed                           *)
(*   "trap_select"   ensure_trapping: Error raised after the commit        *)
(*   "inst_connect"  add_instance_list: the connection raises Error        *)
(*   "inst_db"       add_instance_list: Error raised writing row "at"      *)
(*   "read"          add_instance_list: open() or read() of file "at"      *)
(*                   raises OSError, which nothing catches                 *)
(***************************************************************************)
NoFault == [kind |-> "none", at |-> 0, lost |-> FALSE]

Faults(len) ==
  {NoFault}
  \cup {[kind |-> k, at |-> 0, lost |-> FALSE] : k \in {"trap_connect", "inst_connect"}}
  \cup {[kind |-> "trap_select", at |-> 0, lost |-> l] : l \in BOOLEAN}
  \cup {[kind |-> "inst_db", at |-> j, lost |-> l] : j \in 1..len, l \in BOOLEAN}
  \cup {[kind |-> "read", at |-> j, lost |-> FALSE] : j \in 1..len}

(***************************************************************************)
(* DatabaseConnection, the context manager around every use of the         *)
(* database.  A connection is "none" (connect() raised, nothing to close), *)
(* "connected", "lost" (is_connected() is false) or "closed".              *)
(***************************************************************************)
\* __enter__: mysql.connector.connect(), which raises when refused
DatabaseConnectionEnter(refused) == IF refused THEN "none" ELSE "connected"

\* __exit__ closing the connection only when the block ends without an
\* exception
DatabaseConnectionExit_OnSuccessOnly(connection, raised) ==
  IF connection = "connected" /\ ~raised THEN "closed" ELSE connection

\* __exit__: the connection is closed if there is one and it is connected,
\* whether or not an exception leaves the block
DatabaseConnectionExit(connection, raised) ==
  IF connection = "connected" THEN "closed" ELSE connection

\* one "with DatabaseConnection(...)" block: the connections it opened and
\* those it leaves open.  lost: the connection drops inside the block;
\* raised: an exception leaves the block.  __exit__ is not called when
\* __enter__ raises.
WithDatabaseConnection(refused, lost, raised) ==
  LET entered == DatabaseConnectionEnter(refused)
      inside  == IF entered = "connected" /\ lost THEN "lost" ELSE entered
      left    == IF entered = "none" THEN entered
                 ELSE DatabaseConnectionExit(inside, raised)
  IN  [opened |-> IF entered = "none" THEN 0 ELSE 1,
       open   |-> IF left = "connected" THEN 1 ELSE 0]

\* INSERT INTO trapping (date) VALUES (d) ON DUPLICATE KEY UPDATE date = date,
\* date being a unique key of the table
InsertTrapping(tbl, id, date) ==
  IF \E r \in tbl : r.date = date THEN tbl
  ELSE tbl \cup {[id |-> id, date |-> date]}

\* SELECT id FROM trapping WHERE date = d
SelectTrappingId(tbl, date) == (CHOOSE r \in tbl : r.date = date).id

\* ensure_trapping() with a plain INSERT into a table without the unique
\* key: a row is added whether or not the date has one
EnsureTrapping_AlwaysInserts(tbl, id, date, fault) ==
  IF fault.kind = "trap_connect"
  THEN [trapping |-> tbl, next_id |-> id, return_value |-> 0 - 1,
        conn |-> WithDatabaseConnection(TRUE, FALSE, TRUE)]
  ELSE [trapping     |-> tbl \cup {[id |-> id, date |-> date]},
        next_id      |-> id + 1,
        return_value |-> IF fault.kind = "trap_select" THEN 0 - 1 ELSE id,
        conn         |-> WithDatabaseConnection(FALSE,
                                                fault.kind = "trap_select" /\ fault.lost,
                                                fault.kind = "trap_select")]

\* ensure_trapping(): the table, the next free id and the value returned
EnsureTrapping(tbl, id, date, fault) ==
  IF fault.kind = "trap_connect"
  THEN [trapping |-> tbl, next_id |-> id, return_value |-> 0 - 1,
        conn |-> WithDatabaseConnection(TRUE, FALSE, TRUE)]
  ELSE LET after == InsertTrapping(tbl, id, date)
       IN  [trapping     |-> after,
            next_id      |-> IF after = tbl THEN id ELSE id + 1,
            return_value |-> IF fault.kind = "trap_select" THEN 0 - 1
                             ELSE SelectTrappingId(after, date),
            conn         |-> WithDatabaseConnection(FALSE,
                                  fault.kind = "trap_select" /\ fault.lost,
                                  fault.kind = "trap_select")]

\* str(count), the form in which the count is handed to the query
RECURSIVE NatText(_)
NatText(v) ==
  IF v < 10 THEN <<Digits[v + 1]>>
  ELSE NatText(v \div 10) \o <<Digits[(v % 10) + 1]>>

IntText(v) == IF v < 0 THEN <<"-">> \o NatText(0 - v) ELSE NatText(v)

\* CountWritten without the comparison with blah_previous
CountWritten_KeepsCount(list, k) == list[k].n

\* the count add_instance_list gives the k-th file of file_list
CountWritten(list, k) ==
  LET blah_previous == IF k = 1 THEN <<>> ELSE list[k - 1].blah
  IN  IF list[k].blah = blah_previous THEN 0 ELSE list[k].n

\* the row inserted for the k-th file of file_list
InstanceRow(list, k, trapping_id) ==
  [count       |-> IntValue(IntText(CountWritten(list, k))),
   image       |-> list[k].file_path,
   trapping_id |-> trapping_id]

\* add_instance_list() leaving out the files whose count is ignored
AddInstanceList_SkipsRepeats(tbl, trapping_id, list, fault) ==
  LET written == IF fault.kind = "inst_connect" THEN 0
                 ELSE IF fault.kind \in {"inst_db", "read"} THEN fault.at - 1
                 ELSE Len(list)
      rows    == SelectSeq([k \in 1..written |-> InstanceRow(list, k, trapping_id)],
                           LAMBDA r : r.count # 0)
  IN  [instance     |-> tbl \o rows,
       return_value |-> IF fault.kind = "inst_connect" THEN 0 - 1 ELSE Len(rows),
       raised       |-> fault.kind = "read",
       conn         |-> WithDatabaseConnection(fault.kind = "inst_connect",
                                               fault.kind = "inst_db" /\ fault.lost,
                                               fault.kind \in {"inst_db", "read"})]

\* add_instance_list(): the table, the value returned and whether an
\* exception leaves the function
AddInstanceList(tbl, trapping_id, list, fault) ==
  LET written == IF fault.kind = "inst_connect" THEN 0
                 ELSE IF fault.kind \in {"inst_db", "read"} THEN fault.at - 1
                 ELSE Len(list)
  IN  [instance     |-> tbl \o [k \in 1..written |-> InstanceRow(list, k, trapping_id)],
       return_value |-> IF fault.kind = "inst_connect" THEN 0 - 1 ELSE written,
       raised       |-> fault.kind = "read",
       conn         |-> WithDatabaseConnection(fault.kind = "inst_connect",
                                               fault.kind = "inst_db" /\ fault.lost,
                                               fault.kind \in {"inst_db", "read"})]

(***************************************************************************)
(* The file systems the importer is run over.                              *)
(***************************************************************************)
RECURSIVE Join(_)
\* the tokens joined by underscores
Join(toks) ==
  IF Len(toks) = 1 THEN toks[1]
  ELSE toks[1] \o <<"_">> \o Join(Tail(toks))

IMG == <<"I", "M", "G">>

TokenPool ==
  {IMG, <<>>, <<"5">>, <<"3", "0", "0">>, <<"-", "5">>, <<"a">>, <<"B">>,
   <<"a", "b">>}

Extensions == {<<".", "j", "p", "g">>, <<".", "J", "P", "G">>, <<".", "t", "x", "t">>}

\* every name of up to MaxTokens tokens of TokenPool
TokenNames ==
  {Join(ts) \o ext : ts \in UNION {[1..l -> TokenPool] : l \in 1..MaxTokens},
                     ext \in Extensions}

Jpg(toks) == Join(toks) \o <<".", "j", "p", "g">>

\* IMG_1.jpg, IMG_3.jpg, IMG_5_1.jpg, IMG_5_1_a.jpg, IMG_5_1_b.jpg
ExampleNames ==
  <<Jpg(<<IMG, <<"1">>>>), Jpg(<<IMG, <<"3">>>>), Jpg(<<IMG, <<"5">>, <<"1">>>>),
    Jpg(<<IMG, <<"5">>, <<"1">>, <<"a">>>>), Jpg(<<IMG, <<"5">>, <<"1">>, <<"b">>>>)>>

\* the names the directories of several files are made of
FileNamePool ==
  {ExampleNames[k] : k \in 1..Len(ExampleNames)}
  \cup {Jpg(<<IMG, <<"5">>, <<"2">>, <<"a">>>>),
        Jpg(<<IMG, <<"3", "0", "0">>, <<"a">>>>),
        Join(<<IMG, <<"3", "0", "0">>, <<"B">>>>) \o <<".", "J", "P", "G">>,
        Jpg(<<<<>>, <<"5">>>>),
        Jpg(<<<<>>, <<"5">>, <<"a">>>>),
        Jpg(<<<<>>, <<"-", "1">>, <<"a">>>>),
        Jpg(<<IMG, <<"a", "b">>>>),
        Join(<<IMG, <<"1">>>>) \o <<".", "t", "x", "t">>}

\* a listing of the names, every file one byte long but the big-th
Listing(names, big) ==
  [k \in 1..Len(names) |->
     [name |-> names[k], size |-> IF k = big THEN MaxFileSize ELSE 1]]

\* the listings, in os.listdir() order, of up to MaxFiles files of FileNamePool
PoolListings ==
  {Listing(names, 0) :
     names \in {ns \in UNION {[1..l -> FileNamePool] : l \in 0..MaxFiles} :
                  \A j, k \in 1..Len(ns) : j # k => ns[j] # ns[k]}}

\* the example directory, listed in the order given and in the opposite one
ExampleListings ==
  {Listing(ExampleNames, 0),
   Listing([k \in 1..Len(ExampleNames) |-> ExampleNames[Len(ExampleNames) + 1 - k]], 0)}

\* the listings of the file systems of several directories: two files that
\* pass, one file that passes and is MaxFileSize bytes long, and a file
\* that passes beside one that is not understood
FewListings ==
  {Listing(<<ExampleNames[1], ExampleNames[4]>>, 0),
   Listing(<<ExampleNames[3]>>, 1),
   Listing(<<ExampleNames[1], Jpg(<<IMG, <<"a", "b">>>>)>>, 1)}

\* the trapping dates of the date directories
Dates == {1, 2}

\* the command lines: -x (dry run) given or not and -s, which the parser
\* does not define, given with a size or not
NoArg == 0 - 1

ArgsSet == [x : BOOLEAN, s : {NoArg} \cup 0..(MaxFileSize - 1)]

NotExited == 0 - 1

(***************************************************************************)
(* moths_export_html.py: dates and their texts.  A date is <<year, month,  *)
(* day>>; the text DD-MM-YY of a directory or page name is <<DD, MM, YY>>, *)
(* three numbers of two digits each.                                       *)
(***************************************************************************)
\* None, for a value that is a path, a URL or a date otherwise
None == <<>>

LeapYear(y) == (y % 4 = 0 /\ y % 100 # 0) \/ y % 400 = 0

DaysInMonth(y, m) ==
  IF m = 2 THEN (IF LeapYear(y) THEN 29 ELSE 28)
  ELSE IF m \in {4, 6, 9, 11} THEN 30 ELSE 31

\* %y: the years 69..99 are 1969..1999, the years 00..68 are 2000..2068
FullYear(yy) == IF yy <= 68 THEN 2000 + yy ELSE 1900 + yy

\* strptime(text, '%d-%m-%y') raises ValueError unless the text is a date
IsDate(dmy) ==
  /\ dmy[2] \in 1..12
  /\ dmy[1] \in 1..DaysInMonth(FullYear(dmy[3]), dmy[2])

\* date_from_path taking the text of the name for the date: names are then
\* compared as texts
date_from_path_AsText(path) == path

\* date_from_path(): the date of a path that ends with DD-MM-YY.html
date_from_path(path) == <<FullYear(path[3]), path[2], path[1]>>

\* date.strftime('%d-%m-%y')
strftime_dmy(date) == <<date[3], date[2], date[1] % 100>>

\* a < b for dates (and for any two triples, place by place)
DateLess(a, b) ==
  \/ a[1] < b[1]
  \/ a[1] = b[1] /\ a[2] < b[2]
  \/ a[1] = b[1] /\ a[2] = b[2] /\ a[3] < b[3]

DigitText == <<"0", "1", "2", "3", "4", "5", "6", "7", "8", "9">>

TwoDigits(v) == DigitText[(v \div 10) + 1] \o DigitText[(v % 10) + 1]

RECURSIVE NatString(_)
NatString(v) ==
  IF v < 10 THEN DigitText[v + 1]
  ELSE NatString(v \div 10) \o DigitText[(v % 10) + 1]

MonthName ==
  <<"January", "February", "March", "April", "May", "June", "July",
    "August", "September", "October", "November", "December">>

\* the text DD-MM-YY
DmyText(dmy) == TwoDigits(dmy[1]) \o "-" \o TwoDigits(dmy[2]) \o "-" \o TwoDigits(dmy[3])

\* date.strftime('%e %B %Y').strip(): 1 June 2025
strftime_long(date) ==
  NatString(date[3]) \o " " \o MonthName[date[2]] \o " " \o NatString(date[1])

\* TRAPPING_NAME_PREFIX + DD-MM-YY, the name of a trapping's directory and page
TrappingName(dmy) == "moths_" \o DmyText(dmy)

(***************************************************************************)
(* url_trapping_latest().  The listing at base_url is the sequence of its  *)
(* links, each [prefix, dmy, slash]: href="<prefix>DD-MM-YY" with or       *)
(* without a / at its end.  The URL (and the local path) of the page       *)
(* moths_DD-MM-YY/moths_DD-MM-YY.html is given as <<DD, MM, YY>>.          *)
(***************************************************************************)
\* pattern.findall(response.text): the hrefs moths_\d\d-\d\d-\d\d/
Matches(listing) ==
  SelectSeq(listing, LAMBDA l : l.prefix = "moths_" /\ l.slash)

\* where sort() puts a file among those sorted before it: behind every
\* file whose key is not greater
InsertByDate(sorted, f) ==
  LET stop == Cardinality({k \in 1..Len(sorted) :
                             ~DateLess(date_from_path(f), date_from_path(sorted[k]))})
  IN  SubSeq(sorted, 1, stop) \o <<f>> \o SubSeq(sorted, stop + 1, Len(sorted))

RECURSIVE SortByDate(_)
\* files.sort(key=date_from_path)
SortByDate(files) ==
  IF files = <<>> THEN <<>>
  ELSE InsertByDate(SortByDate(SubSeq(files, 1, Len(files) - 1)), files[Len(files)])

\* url_trapping_latest() without the check of the status code
UrlTrappingLatest_IgnoresStatus(status, listing) ==
  LET matches == Matches(listing)
      files   == [k \in 1..Len(matches) |-> matches[k].dmy]
  IN  IF \E k \in 1..Len(files) : ~IsDate(files[k])
      THEN [raised |-> TRUE, value |-> None]
      ELSE IF Len(files) > 0
           THEN [raised |-> FALSE, value |-> SortByDate(files)[Len(files)]]
           ELSE [raised |-> FALSE, value |-> None]

\* url_trapping_latest(): [raised, value], value the URL of the latest
\* page or None; raised when a name matched is no date (ValueError out of
\* the sort key)
UrlTrappingLatest(status, listing) ==
  IF status # 200 THEN [raised |-> FALSE, value |-> None]
  ELSE LET matches == Matches(listing)
           files   == [k \in 1..Len(matches) |-> matches[k].dmy]
       IN  IF \E k \in 1..Len(files) : ~IsDate(files[k])
           THEN [raised |-> TRUE, value |-> None]
           ELSE IF Len(files) > 0
                THEN [raised |-> FALSE, value |-> SortByDate(files)[Len(files)]]
                ELSE [raised |-> FALSE, value |-> None]

(***************************************************************************)
(* Pages.  The contents of a file are a sequence of pieces, each a run of  *)
(* its bytes: Tok(s) is the text s, Ack(href, text) is the text            *)
(*     ack to <a href="href">text</a> moth page                            *)
(* that follows the B of a back link.                                      *)
(***************************************************************************)
Tok(s) == [kind |-> "text", href |-> "", text |-> s]

Ack(href, text) == [kind |-> "ack", href |-> href, text |-> text]

\* the bytes of a piece
Bytes(piece) ==
  IF piece.kind = "ack"
  THEN "ack to <a href=\"" \o piece.href \o "\">" \o piece.text \o "</a> moth page"
  ELSE piece.text

RECURSIVE FileBytes(_)
\* the bytes of a file
FileBytes(contents) ==
  IF contents = <<>> THEN ""
  ELSE Bytes(Head(contents)) \o FileBytes(Tail(contents))

\* open(path, 'r').read(): the newline is universal, \r\n and \r are read
\* as \n
ReadText(contents) ==
  [k \in 1..Len(contents) |->
     IF contents[k] \in {Tok("\r\n"), Tok("\r")} THEN Tok("\n") ELSE contents[k]]

\* open(path, 'w').write(text): \n is written as os.linesep
WriteText(text, os_linesep) ==
  [k \in 1..Len(text) |-> IF text[k] = Tok("\n") THEN Tok(os_linesep) ELSE text[k]]

\* \s
IsSpace(piece) == piece \in {Tok(" "), Tok("\n"), Tok("\t")}

\* ack to <a\s+href=\s*"[^"]+"\s*>[^<]+</a> moth page
IsBackRest(piece) == piece.kind = "ack" /\ piece.href # "" /\ piece.text # ""

\* the places of the B of every match of
\*   (<i>\s*)B(ack to <a\s+href=\s*"[^"]+"\s*>[^<]+</a> moth page)
BackLinks(text) ==
  {q \in 2..(Len(text) - 1) :
     /\ text[q] = Tok("B")
     /\ IsBackRest(text[q + 1])
     /\ \E b \in 1..(q - 1) :
          /\ text[b] = Tok("<i>")
          /\ \A j \in (b + 1)..(q - 1) : IsSpace(text[j])}

\* re.sub() without count=1: every match is substituted
ReSub_EveryMatch(text, forward_to) ==
  [k \in 1..Len(text) |-> IF k \in BackLinks(text) THEN Tok(forward_to) ELSE text[k]]

\* re.sub(pattern, '\1' + forward_to + '\2', file_contents, count=1): the B
\* of the first match becomes forward_to
ReSub(text, forward_to) ==
  LET found == BackLinks(text)
  IN  IF found = {} THEN text
      ELSE LET first == CHOOSE q \in found : \A r \in found : q <= r
           IN  [text EXCEPT ![first] = Tok(forward_to)]

\* the href of the page of a trapping, as seen from another page
PageHref(dmy) == "../" \o TrappingName(dmy) \o "/" \o TrappingName(dmy) \o ".html"

\* forward_to, for the trapping of this date
ForwardTo(date) ==
  "Forward to <a href=\"" \o PageHref(strftime_dmy(date)) \o "\">"
    \o strftime_long(date) \o "</a> moth page, b"

\* the "Forward to" section of a file is updated: read, substituted and
\* written back
PatchFile(contents, date, os_linesep) ==
  WriteText(ReSub(ReadText(contents), ForwardTo(date)), os_linesep)

\* the array to convert a small integer to a word: no comma stands between
\* 'twenty-seven' and 'twnenty-eight', which Python joins into one string
INT_TO_WORD ==
  <<"no", "one", "two", "three", "four", "five", "six", "seven",
    "eight", "nine", "ten", "eleven", "twelve", "thirteen",
    "fourteen", "fifteen", "sixteen", "seventeen", "eighteen",
    "nineteen", "twenty", "twenty-one", "twenty-two", "twenty-three",
    "twenty-four", "twenty-five", "twenty-six", "twenty-seventwnenty-eight",
    "twenty-nine", "thirty">>

\* object['count_word']: INT_TO_WORD[count] if count < len(INT_TO_WORD),
\* else 'lots of'; a negative index counts from the end of the list and
\* raises IndexError beyond its start
CountWord(count) ==
  IF count < Len(INT_TO_WORD)
  THEN IF count >= 0
       THEN [raised |-> FALSE, word |-> INT_TO_WORD[count + 1]]
       ELSE IF count >= 0 - Len(INT_TO_WORD)
       THEN [raised |-> FALSE, word |-> INT_TO_WORD[Len(INT_TO_WORD) + count + 1]]
       ELSE [raised |-> TRUE, word |-> ""]
  ELSE [raised |-> FALSE, word |-> "lots of"]

\* the objects made of the moths of a trapping for the context of the
\* template: [raised, objects]
ContextObjects(moth_list) ==
  [raised  |-> \E k \in 1..Len(moth_list) : CountWord(moth_list[k].count).raised,
   objects |-> [k \in 1..Len(moth_list) |->
                  [html_name  |-> moth_list[k].html_name,
                   count      |-> moth_list[k].count,
                   count_word |-> CountWord(moth_list[k].count).word]]]

\* template.render(context) of templates/moths.html, as far as navigation
\* and counts go: the page links back to the page of date_previous and has
\* a line "count_word html_name" for each moth
Render(date_this, date_previous, objects) ==
  <<Tok("<h1>" \o strftime_long(date_this) \o "</h1>"), Tok("\n"),
    Tok("<i>"), Tok(" "), Tok("B"),
    Ack(PageHref(strftime_dmy(date_previous)), strftime_long(date_previous)),
    Tok("</i>"), Tok("\n")>>
  \o [k \in 1..Len(objects) |->
        Tok(objects[k].count_word \o " " \o objects[k].html_name)]

\* the file with this path written (anew or over what it held)
WriteFile(files, path, contents) ==
  [q \in (DOMAIN files) \cup {path} |-> IF q = path THEN contents ELSE files[q]]

(***************************************************************************)
(* trappings_db_get_data().  The database read is [trapping, moth,         *)
(* instance]: trapping a set of rows [trapping_id, date], moth the         *)
(* sequence of rows [moth_id, common_name, html_name,                      *)
(* html_best_instance_id, html_best_url] in the order the server gives     *)
(* them, instance a set of rows [instance_id, trapping_id, moth_id, count, *)
(* image, html_use_image].  A name that is NULL or empty is "", an id that *)
(* is NULL is 0, image tells whether the row has an image; common_name is  *)
(* the sequence of its words.                                              *)
(*                                                                         *)
(* The faults of the exporter's database:                                  *)
(*   "data_connect"  the connection raises Error                           *)
(*   "data_query"    Error raised by the query for the trappings (at = 0)  *)
(*                   or by the first query for trapping "at" of the list   *)
(***************************************************************************)
ExportFaults(len) ==
  {NoFault, [kind |-> "data_connect", at |-> 0, lost |-> FALSE]}
  \cup {[kind |-> "data_query", at |-> j, lost |-> l] : j \in 0..len, l \in BOOLEAN}

RECURSIVE NewestFirst(_)
\* ORDER BY trapping.date DESC
NewestFirst(rows) ==
  IF rows = {} THEN <<>>
  ELSE LET newest == CHOOSE r \in rows : \A q \in rows : ~DateLess(r.date, q.date)
       IN  <<newest>> \o NewestFirst(rows \ {newest})

\* SELECT ... FROM trapping WHERE trapping.date > date_from ORDER BY date DESC
SelectTrappings(database, date_from) ==
  NewestFirst({r \in database.trapping : DateLess(date_from, r.date)})

\* (instance.html_use_image AND instance.image IS NOT NULL) OR instance.count > 0
Shown(inst) == (inst.html_use_image /\ inst.image) \/ inst.count > 0

\* the instances the query for one moth of one trapping gives
SelectInstances(database, trapping_id, moth_id) ==
  {inst \in database.instance :
     inst.trapping_id = trapping_id /\ inst.moth_id = moth_id /\ Shown(inst)}

\* SELECT DISTINCT moth ... WHERE trapping.date = the date of the trapping
SelectMoths(database, trapping_id) ==
  SelectSeq(database.moth,
            LAMBDA m : SelectInstances(database, trapping_id, m.moth_id) # {})

RECURSIVE SumCounts(_)
\* count += instance['count'], over the instances of a moth
SumCounts(insts) ==
  IF insts = {} THEN 0
  ELSE LET inst == CHOOSE x \in insts : TRUE
       IN  inst.count + SumCounts(insts \ {inst})

RECURSIVE JoinWords(_, _)
\* the words of a name with sep between them
JoinWords(words, sep) ==
  IF words = <<>> THEN ""
  ELSE IF Len(words) = 1 THEN words[1]
  ELSE words[1] \o sep \o JoinWords(Tail(words), sep)

\* instance['html_name'], generated from common_name when empty
HtmlName(m) ==
  IF m.html_name = "" THEN JoinWords(m.common_name, "_") ELSE m.html_name

\* SELECT ... FROM instance JOIN moth ON instance.moth_id = moth.id
\* WHERE instance.id = html_best_instance_id
SelectBest(database, id) ==
  {[instance_id    |-> inst.instance_id,
    trapping_id    |-> inst.trapping_id,
    image          |-> inst.image,
    html_use_image |-> inst.html_use_image,
    html_name      |-> database.moth[k].html_name] :
     inst \in {x \in database.instance : x.instance_id = id},
     k \in {j \in 1..Len(database.moth) : database.moth[j].moth_id \in
              {x.moth_id : x \in {y \in database.instance : y.instance_id = id}}}}

\* the 'html_previous_image' of one moth of a trapping:
\* [success, set, value, looked_up, raised]; success FALSE where the code
\* sets success = False, set whether the key is put into the moth, looked_up
\* whether the database was asked for the best instance, raised whether the
\* verbose print of instance['html_best_url_computed'] raises KeyError
PreviousImage(database, trapping, m, is_verbose) ==
  IF m.html_best_url # ""
  THEN [success |-> TRUE, set |-> TRUE, value |-> "../" \o m.html_best_url,
        looked_up |-> FALSE, raised |-> FALSE]
  ELSE IF m.html_best_instance_id = 0
  THEN [success |-> FALSE, set |-> FALSE, value |-> "",
        looked_up |-> FALSE, raised |-> FALSE]
  ELSE LET best_url_computed == SelectBest(database, m.html_best_instance_id)
       IN  IF Cardinality(best_url_computed) # 1
           THEN [success |-> FALSE, set |-> FALSE, value |-> "",
                 looked_up |-> TRUE, raised |-> FALSE]
           ELSE LET best == CHOOSE b \in best_url_computed : TRUE
                IN  IF ~(best.image /\ best.html_use_image /\ best.html_name # "")
                    THEN [success |-> FALSE, set |-> FALSE, value |-> "",
                          looked_up |-> TRUE, raised |-> FALSE]
                    ELSE IF trapping.trapping_id # best.trapping_id
                    THEN \* urljoin('../', prefix_str + '/' + prefix_str +
                         \* '.html#' + html_name), prefix_str made from
                         \* trapping['date']; urljoin drops the '../'
                         [success |-> TRUE, set |-> TRUE,
                          value |-> TrappingName(strftime_dmy(trapping.date)) \o "/"
                                      \o TrappingName(strftime_dmy(trapping.date))
                                      \o ".html#" \o best.html_name,
                          looked_up |-> TRUE, raised |-> is_verbose]
                    ELSE [success |-> TRUE, set |-> FALSE, value |-> "",
                          looked_up |-> TRUE, raised |-> FALSE]

\* the ids of the instances of a moth that go into its image_list
ImageList(insts) == {inst.instance_id : inst \in {x \in insts : x.image /\ x.html_use_image}}

\* one moth of trapping['moth_list'] as the loops over the list leave it
MothEntry(database, trapping, m, is_verbose) ==
  LET insts    == SelectInstances(database, trapping.trapping_id, m.moth_id)
      previous == PreviousImage(database, trapping, m, is_verbose)
  IN  [moth_id             |-> m.moth_id,
       common_name         |-> m.common_name,
       html_name           |-> HtmlName(m),
       count               |-> SumCounts(insts),
       image_list          |-> ImageList(insts),
       has_previous_image  |-> previous.set,
       html_previous_image |-> previous.value]

\* the moths of a trapping; success, the queries made and whether the
\* verbose print raised, for the whole of the trapping
TrappingData(database, trapping, is_verbose) ==
  LET moths    == SelectMoths(database, trapping.trapping_id)
      previous == [k \in 1..Len(moths) |->
                     PreviousImage(database, trapping, moths[k], is_verbose)]
  IN  [moth_list |-> [k \in 1..Len(moths) |->
                        MothEntry(database, trapping, moths[k], is_verbose)],
       success   |-> \A k \in 1..Len(moths) : previous[k].success,
       raised    |-> \E k \in 1..Len(moths) : previous[k].raised,
       queries   |-> 1 + Len(moths)
                       + Cardinality({k \in 1..Len(moths) : previous[k].looked_up})]

\* ('html_previous_image' in x, -x['count']) of a is not greater than that of b
MothKeyNotGreater(a, b) ==
  \/ ~a.has_previous_image /\ b.has_previous_image
  \/ a.has_previous_image = b.has_previous_image /\ a.count >= b.count

InsertMoth(sorted, m) ==
  LET stop == Cardinality({k \in 1..Len(sorted) : MothKeyNotGreater(sorted[k], m)})
  IN  SubSeq(sorted, 1, stop) \o <<m>> \o SubSeq(sorted, stop + 1, Len(sorted))

RECURSIVE SortMoths(_)
\* moth_list.sort(key=lambda x: ('html_previous_image' in x, -x['count']))
SortMoths(list) ==
  IF list = <<>> THEN <<>>
  ELSE InsertMoth(SortMoths(SubSeq(list, 1, Len(list) - 1)), list[Len(list)])

RECURSIVE SumQueries(_, _)
SumQueries(data, n) == IF n = 0 THEN 0 ELSE data[n].queries + SumQueries(data, n - 1)

\* a row of trapping_list: populated once its 'moth_list' has been set
TrappingEntry(row, populated, moth_list) ==
  [trapping_id |-> row.trapping_id, date |-> row.date,
   populated |-> populated, moth_list |-> moth_list]

\* trappings_db_get_data(): [trapping_list, raised, queries, conn]; raised
\* when an exception that is no database Error leaves the function
TrappingsDbGetData(database, date_from, f, is_verbose) ==
  IF f.kind = "data_connect"
  THEN [trapping_list |-> <<>>, raised |-> FALSE, queries |-> 0,
        conn |-> WithDatabaseConnection(TRUE, FALSE, TRUE)]
  ELSE IF f.kind = "data_query" /\ f.at = 0
  THEN [trapping_list |-> <<>>, raised |-> FALSE, queries |-> 1,
        conn |-> WithDatabaseConnection(FALSE, f.lost, TRUE)]
  ELSE
    LET rows  == SelectTrappings(database, date_from)
        n     == Len(rows)
        data  == [k \in 1..n |-> TrappingData(database, rows[k], is_verbose)]
        \* the trapping whose first query raises Error, n + 1 if none does
        stop  == IF f.kind = "data_query" /\ f.at <= n THEN f.at ELSE n + 1
        \* KeyError out of the verbose print, before the Error if any
        key_error == \E k \in 1..(stop - 1) : data[k].raised
        success   == \A k \in 1..n : data[k].success
    IN  IF key_error
        THEN [trapping_list |-> <<>>, raised |-> TRUE,
              queries |-> 1 + SumQueries(data, stop - 1),
              conn |-> WithDatabaseConnection(FALSE, FALSE, TRUE)]
        ELSE IF stop <= n
        THEN \* except Error: trapping_list is returned as far as it got
             [trapping_list |->
                [k \in 1..n |-> IF k < stop
                                THEN TrappingEntry(rows[k], TRUE, data[k].moth_list)
                                ELSE TrappingEntry(rows[k], FALSE, <<>>)],
              raised |-> FALSE,
              queries |-> 2 + SumQueries(data, stop - 1),
              conn |-> WithDatabaseConnection(FALSE, f.lost, TRUE)]
        ELSE IF n = 0
        THEN \* "if success:" reads trapping, which the loop never bound:
             \* UnboundLocalError
             [trapping_list |-> <<>>, raised |-> TRUE, queries |-> 1,
              conn |-> WithDatabaseConnection(FALSE, FALSE, TRUE)]
        ELSE IF success
        THEN \* the sort is made after the loop, on the trapping it ended with
             [trapping_list |->
                [k \in 1..n |-> TrappingEntry(rows[k], TRUE,
                                  IF k = n THEN SortMoths(data[k].moth_list)
                                  ELSE data[k].moth_list)],
              raised |-> FALSE,
              queries |-> 1 + SumQueries(data, n),
              conn |-> WithDatabaseConnection(FALSE, FALSE, FALSE)]
        ELSE [trapping_list |-> <<>>, raised |-> FALSE,
              queries |-> 1 + SumQueries(data, n),
              conn |-> WithDatabaseConnection(FALSE, FALSE, FALSE)]

(***************************************************************************)
(* The state.                                                              *)
(***************************************************************************)
VARIABLES
  args,            \* the command line of the current run
  base_dir,        \* os.listdir(base_dir): entries [date, files]
  pc,              \* "start", "loop" (in process_directory) or "exited"
  i,               \* the place in base_dir of the next entry of the loop
  return_value,    \* process_directory's return_value
  file_list,       \* file_list of the directory processed last
  files_in_error,  \* files_in_error of the directory processed last
  fault,           \* what failed while the directory processed last was written
  trapping,        \* the trapping table: rows [id, date]
  next_id,         \* the next auto-increment id of the trapping table
  instance,        \* the instance table: rows [count, image, trapping_id]
  exit_code,       \* the exit status of the run, NotExited while it runs
  runs,            \* the runs started so far
  faults,          \* the faults the environment has caused so far
  scenario,        \* [max_faults, max_reruns]: what the environment may do
  connections,     \* [opened, open]: database connections made, and still open
  \* moths_export_html.py
  remote,          \* the web site: [listing_status, listing, page_status, page]
  db,              \* the database read: [trapping, moth, instance]
  verbose,         \* -v
  os_linesep,      \* os.linesep of the platform the exporter runs on
  local_files,     \* the files under base_dir: page date -> contents
  xpc,             \* the place export_html has reached
  last_published,  \* URL of the latest page of the site, or None
  last_published_file_path,  \* the local copy of that page, or None
  trapping_list,   \* what trappings_db_get_data returned
  t_index,         \* the place in trapping_list of trappings_publish's loop
  file_path_previous,        \* trappings_publish: the page to patch next
  date_previous,   \* trappings_publish: the date new pages link back to
  trappings_published,       \* export_html's return value
  queries,         \* the queries the exporter has sent to the database
  patches          \* the times a page has been read, substituted and rewritten

import_vars == <<args, base_dir, pc, i, return_value, file_list, files_in_error,
                 trapping, next_id, instance, runs>>

export_vars == <<remote, db, verbose, os_linesep, local_files, xpc, last_published,
                 last_published_file_path, trapping_list, t_index, file_path_previous,
                 date_previous, trappings_published, queries, patches>>

vars == <<import_vars, export_vars, exit_code, connections, fault, faults,
          scenario>>

\* the exporter is not run
ExportIdle ==
  /\ remote = [listing_status |-> 200, listing |-> <<>>,
               page_status |-> 200, page |-> <<>>]
  /\ db = [trapping |-> {}, moth |-> {}, instance |-> {}]
  /\ verbose = FALSE
  /\ os_linesep = "\n"
  /\ local_files = <<>>
  /\ xpc = "idle"
  /\ last_published = None
  /\ last_published_file_path = None
  /\ trapping_list = <<>>
  /\ t_index = 0
  /\ file_path_previous = None
  /\ date_previous = None
  /\ trappings_published = 0
  /\ queries = 0
  /\ patches = 0

InitRun ==
  /\ ExportIdle
  /\ connections = [opened |-> 0, open |-> 0]
  /\ pc = "start"
  /\ i = 0
  /\ return_value = 0
  /\ file_list = <<>>
  /\ files_in_error = 0
  /\ fault = NoFault
  /\ trapping = {}
  /\ next_id = 1
  /\ instance = <<>>
  /\ exit_code = NotExited
  /\ runs = 1
  /\ faults = 0

\* one date directory holding one file, imported once and without faults
InitOneFile ==
  /\ args = [x |-> FALSE, s |-> NoArg]
  /\ scenario = [max_faults |-> 0, max_reruns |-> 0]
  /\ \E name \in TokenNames :
       base_dir = <<[date |-> 1, files |-> Listing(<<name>>, 0)]>>
  /\ InitRun

\* one date directory holding up to MaxFiles files
InitOneDir ==
  /\ args = [x |-> FALSE, s |-> NoArg]
  /\ scenario = [max_faults |-> 1, max_reruns |-> 0]
  /\ \E files \in PoolListings : base_dir = <<[date |-> 1, files |-> files]>>
  /\ InitRun

\* the example directory, imported without faults
InitExample ==
  /\ args = [x |-> FALSE, s |-> NoArg]
  /\ scenario = [max_faults |-> 0, max_reruns |-> MaxReruns]
  /\ \E files \in ExampleListings : base_dir = <<[date |-> 1, files |-> files]>>
  /\ InitRun

\* NumEntries entries, date directories or not, and any command line
InitTree ==
  /\ args \in ArgsSet
  /\ scenario = [max_faults |-> 1, max_reruns |-> MaxReruns]
  /\ base_dir \in [1..NumEntries ->
                     {[date |-> NoDate, files |-> <<>>]}
                     \cup [date : Dates, files : FewListings]]
  /\ InitRun

Init == InitOneFile \/ InitOneDir \/ InitExample \/ InitTree

(***************************************************************************)
(* The steps of a run.                                                     *)
(***************************************************************************)
\* what process_directory hands back: it has no return statement, so the
\* caller gets None whatever return_value holds
ProcessDirectoryResult(rv) == [is_none |-> TRUE, value |-> rv]

\* the exit status sys.exit(result) gives: 0 for None, else the integer
SysExitStatus(result) == IF result.is_none THEN 0 ELSE result.value

\* update_db, handed over as "not args.x", with -x taken for a plain flag
UpdateDb_IgnoresDryRun(a) == TRUE

\* update_db, which process_directory is handed as "not args.x"
UpdateDb(a) == ~a.x

\* __main__: the arguments are parsed and process_directory is entered.
\* The parser defines base_dir, -a, -d, -x and -v only, so that a command
\* line carrying -s ends in the parser's usage error, exit status 2.
Main ==
  /\ pc = "start"
  /\ IF args.s # NoArg
     THEN /\ pc' = "exited"
          /\ exit_code' = 2
          /\ UNCHANGED <<i, return_value>>
     ELSE /\ pc' = "loop"
          /\ i' = 1
          /\ return_value' = 0
          /\ UNCHANGED exit_code
  /\ UNCHANGED <<args, base_dir, file_list, files_in_error, fault, trapping,
                 next_id, instance, runs, faults, scenario, connections>>
  /\ UNCHANGED export_vars

\* an entry of the base directory that is no directory named YYYY-MM-DD
SkipEntry ==
  /\ pc = "loop"
  /\ i <= Len(base_dir)
  /\ base_dir[i].date = NoDate
  /\ i' = i + 1
  /\ UNCHANGED <<args, base_dir, pc, return_value, file_list, files_in_error,
                 fault, trapping, next_id, instance, exit_code, runs, faults,
                 scenario, connections>>
  /\ UNCHANGED export_vars

\* one pass of the loop of process_directory over a date directory
ProcessDateDir ==
  /\ pc = "loop"
  /\ i <= Len(base_dir)
  /\ base_dir[i].date # NoDate
  /\ \E int_identity \in {"by_object", "by_value"} :
       LET entry    == base_dir[i]
           parse_errors == FilesInError(entry.files)
           unsorted == BuildFileList(i, entry.files)
           sorted   == SortByBlah(unsorted)
           checked  == parse_errors = 0 /\ Len(unsorted) > 0
           mismatch == checked /\ CountsInconsistent(sorted, 1, 0 - 1, <<>>, int_identity)
           accepted == checked /\ ~mismatch
       IN  /\ file_list' = IF checked THEN sorted ELSE unsorted
           /\ files_in_error' = parse_errors + (IF mismatch THEN 1 ELSE 0)
           /\ IF accepted /\ UpdateDb(args)
              THEN \E f \in (IF faults < scenario.max_faults THEN Faults(Len(sorted))
                           ELSE {NoFault}) :
                     LET et == EnsureTrapping(trapping, next_id, entry.date, f)
                         ail == AddInstanceList(instance, et.return_value, sorted, f)
                     IN  /\ fault' = f
                         /\ faults' = IF f = NoFault THEN faults ELSE faults + 1
                         /\ trapping' = et.trapping
                         /\ next_id' = et.next_id
                         /\ IF et.return_value >= 0
                            THEN /\ instance' = ail.instance
                                 /\ return_value' = ail.return_value
                                 /\ connections' =
                                      [opened |-> connections.opened + et.conn.opened
                                                  + ail.conn.opened,
                                       open   |-> connections.open + et.conn.open
                                                  + ail.conn.open]
                                 /\ IF ail.raised
                                    THEN /\ pc' = "exited"
                                         /\ exit_code' = 1
                                         /\ UNCHANGED i
                                    ELSE /\ i' = i + 1
                                         /\ UNCHANGED <<pc, exit_code>>
                            ELSE /\ return_value' = et.return_value
                                 /\ connections' =
                                      [opened |-> connections.opened + et.conn.opened,
                                       open   |-> connections.open + et.conn.open]
                                 /\ i' = i + 1
                                 /\ UNCHANGED <<instance, pc, exit_code>>
              ELSE /\ fault' = NoFault
                   /\ i' = i + 1
                   /\ UNCHANGED <<return_value, trapping, next_id, instance, pc,
                                  exit_code, faults, connections>>
  /\ UNCHANGED <<args, base_dir, runs, scenario>>
  /\ UNCHANGED export_vars

\* the loop is over: sys.exit(process_directory(...))
Exit ==
  /\ pc = "loop"
  /\ i > Len(base_dir)
  /\ pc' = "exited"
  /\ exit_code' = SysExitStatus(ProcessDirectoryResult(return_value))
  /\ UNCHANGED <<args, base_dir, i, return_value, file_list, files_in_error,
                 fault, trapping, next_id, instance, runs, faults, scenario,
                 connections>>
  /\ UNCHANGED export_vars

\* the importer is started again over the same file system and database
Rerun ==
  /\ pc = "exited"
  /\ runs <= scenario.max_reruns
  /\ UNCHANGED args
  /\ pc' = "start"
  /\ i' = 0
  /\ return_value' = 0
  /\ file_list' = <<>>
  /\ files_in_error' = 0
  /\ fault' = NoFault
  /\ exit_code' = NotExited
  /\ runs' = runs + 1
  /\ UNCHANGED <<base_dir, trapping, next_id, instance, faults, scenario,
                 connections>>
  /\ UNCHANGED export_vars

Next == Main \/ SkipEntry \/ ProcessDateDir \/ Exit \/ Rerun

Spec == Init /\ [][Next]_vars

(***************************************************************************)
(* The web sites and databases the exporter is run over.                   *)
(***************************************************************************)
Link(prefix, dmy, slash) == [prefix |-> prefix, dmy |-> dmy, slash |-> slash]

\* the listing of the example: moths_01-06-25/, moths_15-03-24/, moths_09-12-24/
ExampleLinks ==
  <<Link("moths_", <<1, 6, 25>>, TRUE), Link("moths_", <<15, 3, 24>>, TRUE),
    Link("moths_", <<9, 12, 24>>, TRUE)>>

\* directories of 2025, 2024 and 1999, a name that is no date, a directory
\* of another prefix and a link that is no directory
LinkPool ==
  {ExampleLinks[k] : k \in 1..3}
  \cup {Link("moths_", <<31, 12, 99>>, TRUE), Link("moths_", <<30, 2, 25>>, TRUE),
        Link("bats_", <<2, 7, 25>>, TRUE), Link("moths_", <<3, 7, 25>>, FALSE)}

RECURSIVE SeqsUpTo(_, _)
\* the sequences of at most n members of a set
SeqsUpTo(S, n) ==
  IF n = 0 THEN {<<>>}
  ELSE SeqsUpTo(S, n - 1) \cup {<<x>> \o q : x \in S, q \in {r \in SeqsUpTo(S, n - 1) : Len(r) = n - 1}}

\* the example in its six orders
ExampleSiteListings ==
  {q \in [1..3 -> {ExampleLinks[k] : k \in 1..3}] :
     \A j, k \in 1..3 : j # k => q[j] # q[k]}

\* the listings of at most MaxLinks links, and the example
SiteListings == SeqsUpTo(LinkPool, MaxLinks) \cup ExampleSiteListings

\* the back link of the pages of the site
OldBack == Ack("../moths_15-03-24/moths_15-03-24.html", "15 March 2024")

\* a page with one back link
PageOneBack ==
  <<Tok("<html>"), Tok("\n"), Tok("<i>"), Tok(" "), Tok("B"), OldBack, Tok("</i>"),
    Tok("\n")>>

\* a page with a second back link further down
PageTwoBacks ==
  PageOneBack \o <<Tok("<i>"), Tok("B"), Ack("x", "Y"), Tok("\n")>>

\* a page whose back link has been rewritten already
PagePatched ==
  <<Tok("<html>"), Tok("\n"), Tok("<i>"), Tok(" "),
    Tok(ForwardTo(<<2024, 12, 9>>)), OldBack, Tok("</i>"), Tok("\n")>>

\* a page whose first back link has been rewritten and which has a second
\* back link further down
PagePatchedTwoBacks ==
  PagePatched \o <<Tok("<i>"), Tok("B"), Ack("x", "Y"), Tok("\n")>>

\* a page without a back link: text between <i> and B, an empty href
PageNoBack ==
  <<Tok("<html>"), Tok("\n"), Tok("<i>"), Tok("<b>"), Tok("B"), OldBack,
    Tok("<i>"), Tok(" "), Tok("B"), Ack("", "Y"), Tok("\n")>>

\* a page with one back link and lines that end in \r\n
PageCrLf ==
  <<Tok("<html>"), Tok("\r\n"), Tok("<i>"), Tok(" "), Tok("B"), OldBack, Tok("</i>"),
    Tok("\r\n")>>

PagePool ==
  {PageOneBack, PageTwoBacks, PagePatched, PagePatchedTwoBacks, PageNoBack, PageCrLf}

\* the dates trappings are made on: one before the latest page of the
\* site (1 June 2025) and later ones; the id of a trapping is its place here
TrappingDates ==
  <<<<2025, 5, 20>>, <<2025, 6, 2>>, <<2025, 6, 3>>, <<2025, 7, 1>>, <<2025, 12, 24>>>>

TrappingRow(id) == [trapping_id |-> id, date |-> TrappingDates[id]]

\* a moth with a best URL, and an instance of it with an image
Drinker ==
  [moth_id |-> 1, common_name |-> <<"Drinker">>, html_name |-> "Drinker",
   html_best_instance_id |-> 0,
   html_best_url |-> "moths_15-03-24/moths_15-03-24.html#Drinker"]

InstanceOf(id, trapping_id, moth_id, count, image, html_use_image) ==
  [instance_id |-> id, trapping_id |-> trapping_id, moth_id |-> moth_id,
   count |-> count, image |-> image, html_use_image |-> html_use_image]

\* a database of these trappings with one Drinker photographed at each
DrinkerDb(ids) ==
  [trapping |-> {TrappingRow(id) : id \in ids},
   moth     |-> <<Drinker>>,
   instance |-> {InstanceOf(id, id, 1, 1, TRUE, TRUE) : id \in ids}]

\* the site whose latest page is moths_01-06-25
SiteOf(page) ==
  [listing_status |-> 200, listing |-> ExampleLinks, page_status |-> 200,
   page |-> page]

\* the importer is not run
ImportIdle ==
  /\ args = [x |-> FALSE, s |-> NoArg]
  /\ base_dir = <<>>
  /\ pc = "idle"
  /\ i = 0
  /\ return_value = 0
  /\ file_list = <<>>
  /\ files_in_error = 0
  /\ trapping = {}
  /\ next_id = 1
  /\ instance = <<>>
  /\ runs = 1

InitExportRun ==
  /\ ImportIdle
  /\ fault = NoFault
  /\ faults = 0
  /\ exit_code = NotExited
  /\ connections = [opened |-> 0, open |-> 0]
  /\ local_files = <<>>
  /\ xpc = "start"
  /\ last_published = None
  /\ last_published_file_path = None
  /\ trapping_list = <<>>
  /\ t_index = 0
  /\ file_path_previous = None
  /\ date_previous = None
  /\ trappings_published = 0
  /\ queries = 0
  /\ patches = 0

\* any listing and any outcome of the two fetches, over a database with
\* one new trapping
InitSite ==
  /\ remote \in [listing_status : {200, 404}, listing : SiteListings,
                 page_status : {200, 404}, page : {PageOneBack}]
  /\ db = DrinkerDb({3})
  /\ verbose = FALSE
  /\ os_linesep = "\n"
  /\ scenario = [max_faults |-> 0, max_reruns |-> 0]
  /\ InitExportRun

\* any page as the latest of the site, and up to MaxTrappings trappings in
\* the database
InitChain ==
  /\ \E page \in PagePool : remote = SiteOf(page)
  /\ \E ids \in SUBSET (1..Len(TrappingDates)) :
       /\ Cardinality(ids) <= MaxTrappings
       /\ db = DrinkerDb(ids)
  /\ verbose = FALSE
  /\ os_linesep \in {"\n", "\r\n"}
  /\ scenario = [max_faults |-> 1, max_reruns |-> 0]
  /\ InitExportRun

\* two new trappings and an old one: a Large Yellow photographed at the
\* old trapping (instance 1) and at the newest (instance 2), a Footman seen
\* at both new trappings; what the database holds about the best photograph
\* of each, the order of the moth table and -v are any
InitData ==
  /\ remote = SiteOf(PageOneBack)
  /\ \E name \in {"", "Yellow"}, best \in {0, 1, 2, 9},
        url \in {"", "moths_20-05-25/moths_20-05-25.html#Yellow"},
        url2 \in {"", "moths_15-03-24/moths_15-03-24.html#Footman"},
        image \in BOOLEAN, html_use_image \in BOOLEAN, count \in {1, 5},
        swapped \in BOOLEAN :
       LET yellow  == [moth_id |-> 1, common_name |-> <<"Large", "Yellow">>,
                       html_name |-> name, html_best_instance_id |-> best,
                       html_best_url |-> url]
           footman == [moth_id |-> 2, common_name |-> <<"Footman">>,
                       html_name |-> "Footman", html_best_instance_id |-> 0,
                       html_best_url |-> url2]
       IN  db = [trapping |-> {TrappingRow(1), TrappingRow(2), TrappingRow(3)},
                 moth     |-> IF swapped THEN <<footman, yellow>>
                              ELSE <<yellow, footman>>,
                 instance |-> {InstanceOf(1, 1, 1, 1, image, html_use_image),
                               InstanceOf(2, 3, 1, count, TRUE, TRUE),
                               InstanceOf(3, 3, 2, 3, FALSE, FALSE),
                               InstanceOf(4, 2, 2, 1, TRUE, TRUE)}]
  /\ verbose \in BOOLEAN
  /\ os_linesep = "\n"
  /\ scenario = [max_faults |-> 0, max_reruns |-> 0]
  /\ InitExportRun

\* one new trapping with one moth, of any count
InitCounts ==
  /\ remote = SiteOf(PageOneBack)
  /\ \E count \in (0 - MaxCount)..MaxCount :
       db = [trapping |-> {TrappingRow(3)},
             moth     |-> <<Drinker>>,
             instance |-> {InstanceOf(3, 3, 1, count, TRUE, TRUE)}]
  /\ verbose = FALSE
  /\ os_linesep = "\n"
  /\ scenario = [max_faults |-> 0, max_reruns |-> 0]
  /\ InitExportRun

InitExport == InitSite \/ InitChain \/ InitData \/ InitCounts

(***************************************************************************)
(* The steps of export_html().                                             *)
(***************************************************************************)
\* the exit status of sys.exit(not (export_html(...) >= 0))
ExportExitStatus(published) == IF published >= 0 THEN 0 ELSE 1

\* an exception nothing catches ends the exporter with a traceback
ExportRaises ==
  /\ xpc' = "exited"
  /\ exit_code' = 1

\* last_published = url_trapping_latest(base_url, verbose)
CallUrlTrappingLatest ==
  /\ xpc = "start"
  /\ LET latest == UrlTrappingLatest(remote.listing_status, remote.listing)
     IN  IF latest.raised
         THEN ExportRaises /\ UNCHANGED last_published
         ELSE /\ last_published' = latest.value
              /\ xpc' = IF latest.value # None THEN "copy" ELSE "return"
              /\ UNCHANGED exit_code
  /\ UNCHANGED <<remote, db, verbose, os_linesep, local_files,
                 last_published_file_path, trapping_list, t_index,
                 file_path_previous, date_previous, trappings_published,
                 queries, patches, connections, fault, faults, scenario>>
  /\ UNCHANGED import_vars

\* last_published_file_path = url_copy_local(base_dir, base_url, last_published)
CallUrlCopyLocal ==
  /\ xpc = "copy"
  /\ IF remote.page_status = 200
     THEN /\ local_files' = WriteFile(local_files, last_published, remote.page)
          /\ last_published_file_path' = last_published
          /\ xpc' = "query"
     ELSE /\ last_published_file_path' = None
          /\ xpc' = "return"
          /\ UNCHANGED local_files
  /\ UNCHANGED <<remote, db, verbose, os_linesep, last_published, trapping_list,
                 t_index, file_path_previous, date_previous, trappings_published,
                 queries, patches, connections, fault, faults, scenario,
                 exit_code>>
  /\ UNCHANGED import_vars

\* trapping_list = trappings_db_get_data(base_url, last_published_date, ...)
CallTrappingsDbGetData ==
  /\ xpc = "query"
  /\ LET last_published_date == date_from_path(last_published_file_path)
         found == Len(SelectTrappings(db, last_published_date))
     IN  \E f \in (IF faults < scenario.max_faults THEN ExportFaults(found)
                   ELSE {NoFault}) :
           LET got == TrappingsDbGetData(db, last_published_date, f, verbose)
           IN  /\ fault' = f
               /\ faults' = IF f = NoFault THEN faults ELSE faults + 1
               /\ queries' = queries + got.queries
               /\ connections' = [opened |-> connections.opened + got.conn.opened,
                                  open   |-> connections.open + got.conn.open]
               /\ IF got.raised
                  THEN ExportRaises /\ UNCHANGED trapping_list
                  ELSE /\ trapping_list' = got.trapping_list
                       /\ xpc' = IF Len(got.trapping_list) > 0 THEN "publish"
                                 ELSE "return"
                       /\ UNCHANGED exit_code
  /\ UNCHANGED <<remote, db, verbose, os_linesep, local_files, last_published,
                 last_published_file_path, t_index, file_path_previous,
                 date_previous, trappings_published, patches, scenario>>
  /\ UNCHANGED import_vars

\* trappings_publish() is entered
EnterTrappingsPublish ==
  /\ xpc = "publish"
  /\ file_path_previous' = last_published_file_path
  /\ date_previous' = date_from_path(last_published_file_path)
  /\ t_index' = 1
  /\ xpc' = "publish_loop"
  /\ UNCHANGED <<remote, db, verbose, os_linesep, local_files, last_published,
                 last_published_file_path, trapping_list, trappings_published,
                 queries, patches, connections, fault, faults, scenario,
                 exit_code>>
  /\ UNCHANGED import_vars

\* one pass of the loop of trappings_publish(): the page before is patched
\* and the page of the trapping is written; a trapping without its
\* 'moth_list' raises KeyError after the patch, a count that INT_TO_WORD
\* cannot be indexed with IndexError
PublishTrapping ==
  /\ xpc = "publish_loop"
  /\ t_index <= Len(trapping_list)
  /\ LET this    == trapping_list[t_index]
         patched == IF file_path_previous # None
                    THEN WriteFile(local_files, file_path_previous,
                                   PatchFile(local_files[file_path_previous],
                                             this.date, os_linesep))
                    ELSE local_files
         file_path == strftime_dmy(this.date)
         context == ContextObjects(this.moth_list)
     IN  /\ patches' = IF file_path_previous # None THEN patches + 1 ELSE patches
         /\ IF this.populated /\ ~context.raised
            THEN /\ local_files' =
                      WriteFile(patched, file_path,
                                WriteText(Render(this.date, date_previous,
                                                 context.objects), os_linesep))
                 /\ date_previous' = this.date
                 /\ file_path_previous' = file_path
                 /\ t_index' = t_index + 1
                 /\ UNCHANGED <<xpc, exit_code>>
            ELSE /\ local_files' = patched
                 /\ ExportRaises
                 /\ UNCHANGED <<date_previous, file_path_previous, t_index>>
  /\ UNCHANGED <<remote, db, verbose, os_linesep, last_published,
                 last_published_file_path, trapping_list, trappings_published,
                 queries, connections, fault, faults, scenario>>
  /\ UNCHANGED import_vars

\* return len(trapping_list)
ReturnTrappingsPublish ==
  /\ xpc = "publish_loop"
  /\ t_index > Len(trapping_list)
  /\ trappings_published' = Len(trapping_list)
  /\ xpc' = "return"
  /\ UNCHANGED <<remote, db, verbose, os_linesep, local_files, last_published,
                 last_published_file_path, trapping_list, t_index,
                 file_path_previous, date_previous, queries, patches,
                 connections, fault, faults, scenario, exit_code>>
  /\ UNCHANGED import_vars

\* sys.exit(not (export_html(...) >= 0))
ExportExit ==
  /\ xpc = "return"
  /\ xpc' = "exited"
  /\ exit_code' = ExportExitStatus(trappings_published)
  /\ UNCHANGED <<remote, db, verbose, os_linesep, local_files, last_published,
                 last_published_file_path, trapping_list, t_index,
                 file_path_previous, date_previous, trappings_published,
                 queries, patches, connections, fault, faults, scenario>>
  /\ UNCHANGED import_vars

NextExport ==
  \/ CallUrlTrappingLatest
  \/ CallUrlCopyLocal
  \/ CallTrappingsDbGetData
  \/ EnterTrappingsPublish
  \/ PublishTrapping
  \/ ReturnTrappingsPublish
  \/ ExportExit

SpecExport == InitExport /\ [][NextExport]_vars

(***************************************************************************)
(* The two programs, each run on its own: both go to the database through  *)
(* DatabaseConnection.                                                     *)
(***************************************************************************)
InitPrograms == Init \/ InitExport

NextPrograms == Next \/ NextExport

SpecPrograms == InitPrograms /\ [][NextPrograms]_vars

(***************************************************************************)
(* What the claims below speak of.                                         *)
(***************************************************************************)
\* the next step is a pass of the loop over the date directory base_dir[i]
StepsDateDir == pc = "loop" /\ i <= Len(base_dir) /\ base_dir[i].date # NoDate

\* the list holds the entry of the file with these parts
HasEntry(list, path, n, m, blah) ==
  \E k \in 1..Len(list) :
    list[k] = [file_path |-> path, n |-> n, m |-> m, blah |-> blah]

\* a decimal integer token: digits, with or without a minus sign before them
DecimalToken(t) ==
  LET body == IF Len(t) > 0 /\ t[1] = "-" THEN Tail(t) ELSE t
  IN  Len(body) > 0 /\ \A k \in 1..Len(body) : IsDigit(body[k])

\* the name ends in .jpg, in either case
HasJpgExtension(name) ==
  Len(name) >= 4 /\ Lower(SubSeq(name, Len(name) - 3, Len(name))) = JpgExt

\* the name without its extension
Stem(name) == SubSeq(name, 1, Len(name) - 4)

\* For a name prefix_n.jpg the list holds {n, prefix, no m}; for a name
\* prefix_n_m.jpg it holds {n, prefix, m in lower case}.
ParsedAsClaimed(d, name, list) ==
  LET stem == Stem(name)
      len  == Len(stem)
  IN  HasJpgExtension(name) =>
        /\ \A p \in 2..len :
             (stem[p] = "_" /\ DecimalToken(SubSeq(stem, p + 1, len))) =>
               HasEntry(list, <<d, name>>, IntValue(SubSeq(stem, p + 1, len)),
                        NoM, SubSeq(stem, 1, p - 1))
        /\ \A p \in 2..(len - 2) :
             (/\ stem[p] = "_"
              /\ stem[len - 1] = "_"
              /\ IsAlpha(stem[len])
              /\ DecimalToken(SubSeq(stem, p + 1, len - 2))) =>
               HasEntry(list, <<d, name>>, IntValue(SubSeq(stem, p + 1, len - 2)),
                        LowerChar(stem[len]), SubSeq(stem, 1, p - 1))

\* C1: every file name prefix_n.jpg (prefix not empty, n a decimal integer
\* token, the extension in either case) of a date directory is parsed into
\* count n, groupKey prefix and no variant, and every file name
\* prefix_n_m.jpg with m one letter into count n, groupKey prefix and
\* variant m in lower case.
C1_ParserYieldsCountKeyVariant ==
  [][StepsDateDir =>
       \A k \in 1..Len(base_dir[i].files) :
         ParsedAsClaimed(i, base_dir[i].files[k].name, file_list')]_vars

\* IMG_300_B.JPG has been parsed into n = 300, m = b, blah = IMG
C1_Witness ==
  HasEntry(file_list,
           <<1, Join(<<IMG, <<"3", "0", "0">>, <<"B">>>>) \o <<".", "J", "P", "G">>>>,
           300, "b", IMG)

\* the example directory has been imported by the first run, without faults
ExampleImported ==
  /\ Len(base_dir) = 1
  /\ base_dir[1].files \in ExampleListings
  /\ pc = "exited"
  /\ exit_code = 0
  /\ runs = 1
  /\ faults = 0
  /\ ~args.x

\* the rows of the instance table that hold the image of the file
RowsOfFile(path) == {k \in 1..Len(instance) : instance[k].image = path}

\* the counts written for IMG_1.jpg, IMG_3.jpg, IMG_5_1.jpg, IMG_5_1_a.jpg
\* and IMG_5_1_b.jpg are these
ExampleCountsAre(counts) ==
  \A k \in 1..Len(ExampleNames) :
    /\ RowsOfFile(<<1, ExampleNames[k]>>) # {}
    /\ \A r \in RowsOfFile(<<1, ExampleNames[k]>>) : instance[r].count = counts[k]

C3_FirstRowOfGroupCarriesCount ==
  [][StepsDateDir =>
       \A k \in 1..(Len(instance') - Len(instance)) :
         instance'[Len(instance) + k].count =
           IF \E j \in 1..(k - 1) : file_list'[j].blah = file_list'[k].blah
           THEN 0
           ELSE file_list'[k].n]_vars

\* no integer count token at the last position of the name, nor at the
\* position before a single trailing letter
FailsToParse(name) ==
  LET toks == Split(Stem(name))
      last == toks[Len(toks)]
  IN  /\ ~IntParses(last)
      /\ ~(/\ Len(last) = 1
           /\ IsAlpha(last[1])
           /\ Len(toks) >= 2
           /\ IntParses(toks[Len(toks) - 1]))

HasUnparsedJpg(files) ==
  \E k \in 1..Len(files) : HasJpgExtension(files[k].name) /\ FailsToParse(files[k].name)

\* C4: when a .jpg file of a date directory fails to parse, no trapping row
\* and no instance row is written for the directory, and the importer goes
\* on with the next entry of the base directory.
C4_UnparsedFileRejectsDirectory ==
  [][(StepsDateDir /\ HasUnparsedJpg(base_dir[i].files)) =>
       /\ trapping' = trapping
       /\ instance' = instance
       /\ pc' = "loop"
       /\ i' = i + 1]_vars

\* a directory holding a file that is understood and one that is not has
\* been passed over, and its sibling has been imported
C4_Witness ==
  /\ pc = "loop"
  /\ i = 3
  /\ runs = 1
  /\ HasUnparsedJpg(base_dir[1].files)
  /\ \E k \in 1..Len(base_dir[1].files) :
       HasJpgExtension(base_dir[1].files[k].name) /\ ~FailsToParse(base_dir[1].files[k].name)
  /\ instance # <<>>
  /\ \A k \in 1..Len(instance) : instance[k].image[1] = 2

\* the entries of the .jpg files of a listing that the parser understands
Understood(files) ==
  {ParseFileName(files[k].name) :
     k \in {j \in 1..Len(files) : HasJpgExtension(files[j].name)
                                  /\ ParseFileName(files[j].name).has_n}}

\* two files carry a variant tag and the same groupKey, and their n differ
VariantPairDiffers(files) ==
  \E e, f \in Understood(files) :
    e.m # NoM /\ f.m # NoM /\ e.blah = f.blah /\ e.n # f.n

\* C5: when two file names of a directory both carry a variant tag and share
\* a groupKey and their parsed n differ, the import of the directory fails
\* and neither a trapping row nor an instance row is written for it.
C5_VariantMismatchRejectsDirectory ==
  [][(StepsDateDir /\ VariantPairDiffers(base_dir[i].files)) =>
       /\ files_in_error' > 0
       /\ trapping' = trapping
       /\ instance' = instance]_vars

\* a directory of understood files, two of them tagged and differing in n,
\* has been rejected
C5_Witness ==
  /\ pc = "loop"
  /\ i = 2
  /\ runs = 1
  /\ base_dir[1].date # NoDate
  /\ VariantPairDiffers(base_dir[1].files)
  /\ ~HasUnparsedJpg(base_dir[1].files)
  /\ files_in_error = 1
  /\ instance = <<>>
  /\ trapping = {}

\* two files share a groupKey and their n differ, tagged or not
SameKeyDifferentCount(files) ==
  \E e, f \in Understood(files) : e.blah = f.blah /\ e.n # f.n

\* C6: rows are written for a directory only when all of its file names that
\* share a groupKey carry the same count, the names without a variant tag
\* included; a directory in which they do not is given no trapping row and
\* no instance row.
C6_SameKeySameCount ==
  [][(StepsDateDir /\ SameKeyDifferentCount(base_dir[i].files)) =>
       /\ trapping' = trapping
       /\ instance' = instance]_vars

\* the rows the step adds to the instance table
NewRows == {instance'[k] : k \in (Len(instance) + 1)..Len(instance')}

\* the directory base_dir[i] passes validation and is written without a
\* database error, every one of its files being read
WritesDirectory ==
  /\ StepsDateDir
  /\ ~args.x
  /\ files_in_error' = 0
  /\ file_list' # <<>>
  /\ fault' = NoFault

\* C7: the trapping table holds at most one row per date, whatever imports
\* have been made; and ensure_trapping, called for a date that has a row
\* already, leaves the table as it is and gives the id of that row, which
\* the instance rows then written refer to.
C7_OneTrappingRowPerDate ==
  /\ [](\A r, q \in trapping : r.date = q.date => r = q)
  /\ [][\A r \in trapping :
          (WritesDirectory /\ r.date = base_dir[i].date) =>
            /\ trapping' = trapping
            /\ NewRows # {}
            /\ \A row \in NewRows : row.trapping_id = r.id]_vars

\* the same file has been imported twice, under the one trapping row
C7_Witness ==
  /\ Cardinality(trapping) = 1
  /\ \E j, k \in 1..Len(instance) :
       /\ j < k
       /\ instance[j].image = instance[k].image
       /\ instance[j].trapping_id = instance[k].trapping_id
       /\ \E r \in trapping : r.id = instance[k].trapping_id

\* the .jpg files of a listing
NumJpg(files) == Cardinality({k \in 1..Len(files) : HasJpgExtension(files[k].name)})

\* C8: a date directory that passes validation with k image files, written
\* with no database error and every file read, adds exactly k instance rows,
\* each referring to the trapping row of the directory's date, and
\* add_instance_list returns k; so the same directory imported twice leaves
\* 2k instance rows for that trapping.
C8_OneRowPerImage ==
  /\ [][WritesDirectory =>
          /\ Len(instance') = Len(instance) + NumJpg(base_dir[i].files)
          /\ return_value' = NumJpg(base_dir[i].files)
          /\ \E r \in trapping' :
               /\ r.date = base_dir[i].date
               /\ \A row \in NewRows : row.trapping_id = r.id]_vars
  /\ [](( /\ pc = "exited"
          /\ exit_code = 0
          /\ runs = 2
          /\ faults = 0
          /\ ~args.x
          /\ Len(base_dir) = 1
          /\ base_dir[1].date # NoDate
          /\ files_in_error = 0
          /\ file_list # <<>> ) =>
           /\ Len(instance) = 2 * NumJpg(base_dir[1].files)
           /\ \E r \in trapping :
                /\ r.date = base_dir[1].date
                /\ \A k \in 1..Len(instance) : instance[k].trapping_id = r.id)

\* the example directory has been imported twice: 10 rows
C8_Witness ==
  /\ pc = "exited"
  /\ runs = 2
  /\ faults = 0
  /\ Len(base_dir) = 1
  /\ NumJpg(base_dir[1].files) = 5
  /\ Len(instance) = 10
  /\ return_value = 5

\* C9: with a maximum file size of N > 0 bytes configured, a date directory
\* holding a file of N + 1 bytes is given no trapping row and no instance
\* row; and with a maximum of 0, which is no limit, the run goes through the
\* base directory as a run without a maximum does.
C9_OversizeFileRejectsDirectory ==
  /\ [][(/\ StepsDateDir
         /\ args.s > 0
         /\ \E k \in 1..Len(base_dir[i].files) : base_dir[i].files[k].size = args.s + 1) =>
          /\ trapping' = trapping
          /\ instance' = instance]_vars
  /\ []((pc = "exited" /\ args.s = 0) => (i > Len(base_dir) \/ exit_code = 1))

\* C10: at the exit of the importer the exit code is 0 when directories
\* were imported without a failure and 1 otherwise.
C10_ExitCodeTellsWorkDone ==
  (pc = "exited" /\ runs = 1 /\ args.s = NoArg) =>
    exit_code = IF instance # <<>> /\ faults = 0 THEN 0 ELSE 1

\* C17: in a dry run (-x) no step of the importer writes to the trapping
\* table or to the instance table or opens a database connection, whatever
\* the directories hold: the tables are after the run what they were before.
C17_DryRunWritesNothing ==
  /\ [][args.x => /\ trapping' = trapping
                  /\ instance' = instance
                  /\ connections' = connections]_vars
  /\ [](args.x => connections.opened = 0)

\* a dry run over a directory that passes validation has ended
C17_Witness ==
  /\ args.x
  /\ pc = "exited"
  /\ exit_code = 0
  /\ \E d \in 1..Len(base_dir) :
       /\ base_dir[d].date # NoDate
       /\ FilesInError(base_dir[d].files) = 0
       /\ NumJpg(base_dir[d].files) > 0
  /\ files_in_error = 0
  /\ file_list # <<>>
  /\ trapping = {}
  /\ instance = <<>>
  /\ connections.opened = 0

\* C18: every accepted entry has a count that is not negative (a name whose
\* count token is a negative integer, such as IMG_-5.jpg, gives no entry),
\* and no instance row is written with a negative count.
C18_CountsNonNegative ==
  /\ \A k \in 1..Len(file_list) : file_list[k].n >= 0
  /\ \A k \in 1..Len(instance) : instance[k].count >= 0

\* the groupKey of the entry is not empty and is the text of the entry's
\* file name before its _n or _n_m suffix
GroupKeyIsPrefix(e) ==
  LET stem == Stem(e.file_path[2])
      len  == Len(stem)
  IN  /\ e.blah # <<>>
      /\ \E p \in 2..len :
           /\ stem[p] = "_"
           /\ SubSeq(stem, 1, p - 1) = e.blah
           /\ \/ DecimalToken(SubSeq(stem, p + 1, len))
              \/ /\ len - p >= 3
                 /\ stem[len - 1] = "_"
                 /\ IsAlpha(stem[len])
                 /\ DecimalToken(SubSeq(stem, p + 1, len - 2))

\* C19: every accepted entry has a groupKey that is not empty and is exactly
\* the text of the file name before the _n (or _n_m) suffix; a name with
\* nothing before the count token (12.jpg, _5.jpg, _5_a.jpg) gives no entry.
C19_GroupKeyNotEmpty ==
  \A k \in 1..Len(file_list) : GroupKeyIsPrefix(file_list[k])

(***************************************************************************)
(* What the claims about the exporter speak of.                            *)
(***************************************************************************)
\* the file has a forward link to the page of the trapping of this date
HasForwardTo(contents, date) ==
  \E k \in 1..Len(contents) : contents[k] = Tok(ForwardTo(date))

\* the file has a back link to the page of this date
HasBackTo(contents, date) ==
  \E k \in 1..Len(contents) :
    contents[k] = Ack(PageHref(strftime_dmy(date)), strftime_long(date))

\* the dates of the trappings exported
NewDates == {trapping_list[k].date : k \in 1..Len(trapping_list)}

\* the calendar date of the name DD-MM-YY, years 69..99 being of the 1900s
CalendarDate(dmy) ==
  <<(IF dmy[3] >= 69 THEN 1900 ELSE 2000) + dmy[3], dmy[2], dmy[1]>>

\* the date of the new or mirrored pages that comes right before this one
DateBefore(date) ==
  LET earlier == {d \in NewDates \cup {CalendarDate(last_published)} : DateLess(d, date)}
  IN  CHOOSE d \in earlier : \A e \in earlier : ~DateLess(d, e)

\* C11: when several new trappings have been exported in one run, the
\* mirrored last-published page (which had a back link to rewrite) has a
\* forward link to the earliest new page, every new page but the newest has
\* a forward link to the new page of the next later date, and the back link
\* of every new page is to the page of the date right before it.
C11_PagesFormChain ==
  (/\ xpc = "exited"
   /\ exit_code = 0
   /\ trappings_published >= 2
   /\ BackLinks(ReadText(remote.page)) # {}) =>
    /\ \E first \in NewDates :
         /\ \A d \in NewDates : ~DateLess(d, first)
         /\ HasForwardTo(local_files[last_published_file_path], first)
    /\ \A d \in NewDates :
         /\ HasBackTo(local_files[strftime_dmy(d)], DateBefore(d))
         /\ \A e \in NewDates :
              DateBefore(e) = d => HasForwardTo(local_files[strftime_dmy(d)], e)

\* the step is a pass of the loop of trappings_publish() that patches the
\* file of the page before, which holds a back link
PatchesBackLink ==
  /\ PublishTrapping
  /\ file_path_previous # None
  /\ BackLinks(ReadText(local_files[file_path_previous])) # {}

\* the bytes of the file with the B of its first back link replaced by text
FirstBackLinkReplaced(contents, text) ==
  LET found == BackLinks(ReadText(contents))
      first == CHOOSE q \in found : \A r \in found : q <= r
  IN  FileBytes(SubSeq(contents, 1, first - 1)) \o text
        \o FileBytes(SubSeq(contents, first + 1, Len(contents)))

\* C12: patching a page that holds a back link "<i> Back to <a href=x>Y</a>
\* moth page" turns the first such link, and only it, into "<i> Forward to
\* <a href=new>Z</a> moth page, back to <a href=x>Y</a> moth page"; every
\* other byte of the file is as it was.
C12_OneSubstitutionOtherBytesKept ==
  [][PatchesBackLink =>
       FileBytes(local_files'[file_path_previous]) =
         FirstBackLinkReplaced(local_files[file_path_previous],
                               ForwardTo(trapping_list[t_index].date))]_vars

\* the piece is the text a patch puts in place of the B of a back link
IsForwardTo(piece) ==
  \E d \in {TrappingDates[k] : k \in DOMAIN TrappingDates} \cup {<<2024, 12, 9>>} :
    piece = Tok(ForwardTo(d))

\* the page has a back link that was rewritten into "<i> Forward to <a
\* href=new>Z</a> moth page, back to <a href=x>Y</a> moth page"
AlreadyRewritten(text) ==
  \E q \in 2..(Len(text) - 1) :
    /\ IsForwardTo(text[q])
    /\ IsBackRest(text[q + 1])
    /\ \E b \in 1..(q - 1) :
         /\ text[b] = Tok("<i>")
         /\ \A j \in (b + 1)..(q - 1) : IsSpace(text[j])

\* C13: patching a page whose back link has already been rewritten into
\* the forward-and-back link leaves the text of the page as it was, so the
\* page does not get a second forward link.
C13_PatchIdempotent ==
  [][(/\ PublishTrapping
      /\ file_path_previous # None
      /\ AlreadyRewritten(ReadText(local_files[file_path_previous]))) =>
       ReadText(local_files'[file_path_previous]) =
         ReadText(local_files[file_path_previous])]_vars

\* the names DD-MM-YY of the directories moths_DD-MM-YY/ the listing links to
NamedDirectories(listing) ==
  {listing[k].dmy : k \in {j \in 1..Len(listing) :
                             listing[j].prefix = "moths_" /\ listing[j].slash}}

\* C14: when the listing is fetched and links to one or more directories
\* moths_DD-MM-YY/, each DD-MM-YY a date, url_trapping_latest() returns the
\* page of the one with the latest calendar date; over moths_01-06-25/,
\* moths_15-03-24/ and moths_09-12-24/ that is moths_01-06-25.
C14_LatestByCalendarDate ==
  [][(/\ CallUrlTrappingLatest
      /\ remote.listing_status = 200
      /\ NamedDirectories(remote.listing) # {}
      /\ \A d \in NamedDirectories(remote.listing) : IsDate(d)) =>
       /\ xpc' = "copy"
       /\ last_published' \in NamedDirectories(remote.listing)
       /\ \A d \in NamedDirectories(remote.listing) :
            ~DateLess(CalendarDate(last_published'), CalendarDate(d))
       /\ remote.listing \in ExampleSiteListings => last_published' = <<1, 6, 25>>]_vars

\* the example listing has been resolved to moths_01-06-25
C14_Witness ==
  /\ xpc = "copy"
  /\ remote.listing_status = 200
  /\ remote.listing \in ExampleSiteListings
  /\ last_published = <<1, 6, 25>>

\* there is no page to chain onto: the listing is not fetched, or it links
\* to no directory moths_DD-MM-YY/, or the latest page is not fetched
NothingToChainOnto ==
  \/ remote.listing_status # 200
  \/ NamedDirectories(remote.listing) = {}
  \/ /\ \A d \in NamedDirectories(remote.listing) : IsDate(d)
     /\ remote.page_status # 200

\* C15: when there is no page to chain onto, export_html() queries no
\* database, writes no page, patches no page and returns 0, and nothing is
\* raised.
C15_NothingDone ==
  NothingToChainOnto =>
    /\ xpc \in {"start", "copy", "return", "exited"}
    /\ queries = 0
    /\ connections.opened = 0
    /\ patches = 0
    /\ DOMAIN local_files = {}
    /\ trapping_list = <<>>
    /\ trappings_published = 0
    /\ exit_code \in {NotExited, 0}

\* the run has ended with nothing done, the latest page not being fetched
C15_Witness ==
  /\ xpc = "exited"
  /\ exit_code = 0
  /\ remote.listing_status = 200
  /\ NamedDirectories(remote.listing) # {}
  /\ remote.page_status # 200
  /\ last_published # None
  /\ trappings_published = 0

\* the best previous photo of the moth cannot be resolved: no best URL and
\* no best-instance id, or the instance referred to is missing, has no
\* image, has html_use_image false or is of a moth without html_name
BestPhotoUnresolved(database, m) ==
  /\ m.html_best_url = ""
  /\ \/ m.html_best_instance_id = 0
     \/ LET referred == {inst \in database.instance :
                           inst.instance_id = m.html_best_instance_id}
        IN  \/ referred = {}
            \/ \E inst \in referred :
                 \/ ~inst.image
                 \/ ~inst.html_use_image
                 \/ \E k \in 1..Len(database.moth) :
                      /\ database.moth[k].moth_id = inst.moth_id
                      /\ database.moth[k].html_name = ""

\* some moth of some trapping of the export batch has a best previous photo
\* that cannot be resolved
BatchUnresolved ==
  /\ last_published_file_path # None
  /\ \E r \in db.trapping :
       /\ DateLess(CalendarDate(last_published_file_path), r.date)
       /\ \E k \in 1..Len(db.moth) :
            /\ \E inst \in db.instance :
                 /\ inst.trapping_id = r.trapping_id
                 /\ inst.moth_id = db.moth[k].moth_id
                 /\ (inst.html_use_image /\ inst.image) \/ inst.count > 0
            /\ BestPhotoUnresolved(db, db.moth[k])

\* C16: when the best previous photo of some moth of some trapping of the
\* batch cannot be resolved (and the database fails no query),
\* trappings_db_get_data() returns the empty list, nothing being raised, and
\* no page is written or patched for any trapping of the batch.
C16_UnresolvedAbortsBatch ==
  (BatchUnresolved /\ faults = 0 /\ xpc \notin {"start", "copy", "query"}) =>
    /\ xpc \in {"return", "exited"}
    /\ exit_code \in {NotExited, 0}
    /\ trapping_list = <<>>
    /\ patches = 0
    /\ DOMAIN local_files = {last_published_file_path}
    /\ trappings_published = 0

\* C20: no database connection stays open once ensure_trapping(),
\* add_instance_list() or trappings_db_get_data() has returned or raised:
\* every connection a DatabaseConnection block opened is closed when the
\* block is left, by its end, by an early exit or by an exception.
C20_NoConnectionLeftOpen == connections.open = 0

\* a file read error was raised inside the block of add_instance_list(),
\* whose connection had been opened and is open no more
C20_Witness ==
  /\ fault.kind = "read"
  /\ connections.opened >= 2
  /\ connections.open = 0

\* C21: a date directory of understood file names in which no two tagged
\* names of one groupKey differ in n passes the final check, whatever the n
\* (above 256 too) and whatever the groupKey, and is imported: written with
\* no fault, it gets one instance row per image file.
C21_EqualCountsPassCheck ==
  [][(/\ StepsDateDir
      /\ NumJpg(base_dir[i].files) > 0
      /\ ~HasUnparsedJpg(base_dir[i].files)
      /\ ~VariantPairDiffers(base_dir[i].files)) =>
       /\ files_in_error' = 0
       /\ ((~args.x /\ fault' = NoFault) =>
             Len(instance') = Len(instance) + NumJpg(base_dir[i].files))]_vars

\* the latest page has been mirrored and the database holds no trapping
\* dated after it
NoNewerTrapping ==
  /\ last_published_file_path # None
  /\ \A r \in db.trapping :
       ~DateLess(CalendarDate(last_published_file_path), r.date)

\* C22: when the database holds no trapping dated after the latest
\* published page (and fails no query), trappings_db_get_data() returns the
\* empty list, nothing being raised, and export_html() writes no page,
\* leaves the mirrored page as it was fetched and returns 0.
C22_NoNewerTrappingNothingDone ==
  (NoNewerTrapping /\ faults = 0 /\ xpc \notin {"start", "copy", "query"}) =>
    /\ xpc \in {"return", "exited"}
    /\ exit_code \in {NotExited, 0}
    /\ trapping_list = <<>>
    /\ patches = 0
    /\ DOMAIN local_files = {last_published_file_path}
    /\ local_files[last_published_file_path] = remote.page
    /\ trappings_published = 0

\* the moths without a previous image come first, and within the moths
\* without and the moths with one the counts go down
MothListOrdered(moth_list) ==
  \A j, k \in 1..Len(moth_list) :
    j < k =>
      /\ ~(moth_list[j].has_previous_image /\ ~moth_list[k].has_previous_image)
      /\ (moth_list[j].has_previous_image = moth_list[k].has_previous_image =>
            moth_list[j].count >= moth_list[k].count)

\* C23: the moth list of every trapping of the list that
\* trappings_db_get_data() returned with success, and not of the last one
\* only, is ordered: no previous image first, then by count, descending.
C23_EveryMothListOrdered ==
  (faults = 0 /\ xpc \in {"publish", "publish_loop", "return", "exited"}) =>
    \A k \in 1..Len(trapping_list) :
      trapping_list[k].populated => MothListOrdered(trapping_list[k].moth_list)

\* the row of the moth table with this id
MothRow(moth_id) ==
  db.moth[CHOOSE k \in 1..Len(db.moth) : db.moth[k].moth_id = moth_id]

\* the link to the anchor html_name of the page of the trapping of this date
AnchorOnPageOf(date, html_name) ==
  TrappingName(strftime_dmy(date)) \o "/" \o TrappingName(strftime_dmy(date))
    \o ".html#" \o html_name

\* C24: in the list trappings_db_get_data() returned, a moth without a best
\* URL whose best instance is of another trapping than the one exported has
\* its previous-image link to the anchor of the moth on the page of the
\* trapping that holds the best instance; a moth whose best instance is of
\* the trapping exported has no previous-image link.
C24_LinkToPageOfBestInstance ==
  (faults = 0 /\ xpc \in {"publish", "publish_loop", "return", "exited"}) =>
    \A k \in 1..Len(trapping_list) :
      trapping_list[k].populated =>
        \A j \in 1..Len(trapping_list[k].moth_list) :
          LET m    == trapping_list[k].moth_list[j]
              row  == MothRow(m.moth_id)
          IN  row.html_best_url = "" =>
                \A inst \in db.instance, held \in db.trapping :
                  (/\ inst.instance_id = row.html_best_instance_id
                   /\ held.trapping_id = inst.trapping_id) =>
                    IF held.trapping_id = trapping_list[k].trapping_id
                    THEN ~m.has_previous_image
                    ELSE /\ m.has_previous_image
                         /\ m.html_previous_image \in
                              {AnchorOnPageOf(held.date, MothRow(inst.moth_id).html_name),
                               "../" \o AnchorOnPageOf(held.date,
                                                      MothRow(inst.moth_id).html_name)}

\* the English words for 0 ('no') to 30
EnglishWords ==
  <<"no", "one", "two", "three", "four", "five", "six", "seven", "eight",
    "nine", "ten", "eleven", "twelve", "thirteen", "fourteen", "fifteen",
    "sixteen", "seventeen", "eighteen", "nineteen", "twenty", "twenty-one",
    "twenty-two", "twenty-three", "twenty-four", "twenty-five", "twenty-six",
    "twenty-seven", "twenty-eight", "twenty-nine", "thirty">>

\* the word a page is to have for a count: its English word up to 30,
\* 'lots of' above
WordFor(count) ==
  IF count <= 30 THEN EnglishWords[count + 1] ELSE "lots of"

\* C25: a run that exported trappings whose moths have counts of 0 or more
\* ends without an exception, and the page of each trapping has, for each
\* of its moths, the English word of the moth's count when the count is 0
\* to 30 and 'lots of' when it is above 30.
C25_CountWordIsEnglish ==
  (/\ xpc = "exited"
   /\ faults = 0
   /\ trapping_list # <<>>
   /\ \A k \in 1..Len(trapping_list) :
        \A j \in 1..Len(trapping_list[k].moth_list) :
          trapping_list[k].moth_list[j].count >= 0) =>
    /\ exit_code = 0
    /\ \A k \in 1..Len(trapping_list) :
         /\ strftime_dmy(trapping_list[k].date) \in DOMAIN local_files
         /\ \A j \in 1..Len(trapping_list[k].moth_list) :
              LET m    == trapping_list[k].moth_list[j]
                  page == local_files[strftime_dmy(trapping_list[k].date)]
              IN  \E q \in 1..Len(page) :
                    page[q] = Tok(WordFor(m.count) \o " " \o m.html_name)

====
